---- MODULE Spec2Model ----
(***************************************************************************)
(* swh-clearlydefined: the orchestrator that copies ClearlyDefined records *)
(* from the clearcode staging database into the Software Heritage raw      *)
(* extrinsic metadata storage, with its watermark ('date' in clearcode_env)*)
(* and its retry table (unmapped_data).                                    *)
(*                                                                         *)
(* One orchestrator() call is a run; it is modelled step by step: storage  *)
(* registration, one step per retried path, the watermark read, the scan   *)
(* query with the watermark write, one step per scanned row.  The staging  *)
(* table and the archive are changed by their owners between runs.         *)
(*                                                                         *)
(* Spec is the orchestrator with its environment, CrashSpec adds the kill  *)
(* of the process at any point of a run, MapperSpec is the functions of    *)
(* mapping_utils called on their own over every archive and input.         *)
(***************************************************************************)
EXTENDS Integers, Sequences, FiniteSets, TLC

\* ------------------------------------------------------------------ bounds
\* last_modified_date values run over 1..MaxDate
MaxDate == 2
\* the staging table holds at most MaxRows rows
MaxRows == 2
\* identifiers handed to get_type_of_tool have 1..MaxComponents components
MaxComponents == 10
\* harvest payloads handed to map_row list at most MaxFiles files
MaxFiles == 3

\* ------------------------------------------------------------- data values
None == "None"

\* MappingStatus members, as orchestrate_row compares them
MAPPED == "MAPPED"
UNMAPPED == "UNMAPPED"
IGNORE == "IGNORE"

\* sha1 values that harvest payloads list, and the sha1_git the archive keeps
\* for the content of each (Content.sha1 / Content.sha1_git)
NoHash == ""
Sha1s == {"a1", "a2"}
Sha1GitOf(sha1) == IF sha1 = "a1" THEN "g1" ELSE "g2"

\* revision ids that definition payloads name; BadSha is not 40 hex digits
Revs == {"4c66"}
BadSha == "not-a-sha"
\* a second revision id, for payloads whose two hash fields differ
Rev2 == "9f3a"
\* a sha1 of no content that the archive ever receives
WrongSha1 == "6ac5"

hash_to_bytes(hex) == <<"bytes", hex>>
hash_to_hex(bytes) == bytes[2]

\* ------------------------------------------------------------- identifiers
\* An identifier is the tuple of its components, cd_path.split("/").
JsonNames == {"0.4.0.json", "3.2.2.json", "1.3.4.json"}
EndsWithJson(component) == component \in JsonNames

DefPath == <<"maven", "mavencentral", "za.co.absa.cobrix", "cobol-parser",
             "revision", "0.4.0.json">>
ScanPath == <<"npm", "npmjs", "@ngtools", "webpack", "revision", "10.2.1",
              "tool", "scancode", "3.2.2.json">>
FossPath == <<"npm", "npmjs", "@pixi", "mesh-extras", "revision", "5.3.5",
              "tool", "fossology", "1.3.4.json">>
BadPath == <<"maven", "mavencentral", "za.co.absa.cobrix", "cobol-parser",
             "abc", "0.4.0.json">>
Paths == {DefPath, ScanPath, FossPath, BadPath}

\* the identifier of n components with the given 5th, 7th, 8th and last one
PathOf(n, rev, tok, name, last) ==
  [i \in 1..n |-> IF i = n THEN last
                  ELSE IF i = 5 THEN rev
                  ELSE IF i = 7 THEN tok
                  ELSE IF i = 8 THEN name
                  ELSE "x"]
\* identifiers get_type_of_tool is called with: every length, with and
\* without the "revision" and "tool" tokens, a known tool and the extension
ParserPaths ==
  Paths \cup
  {PathOf(n, rev, tok, name, last) :
     n \in 1..MaxComponents, rev \in {"revision", "abc"},
     tok \in {"tool", "abc"},
     name \in {"scancode", "licensee", "clearlydefined", "fossology",
               "unknown"},
     last \in {"0.4.0.json", "0.4.0.txt", "revision"}}

Raise(kind) == [raised |-> TRUE, kind |-> kind, value |-> None]
Return(value) == [raised |-> FALSE, kind |-> None, value |-> value]

\* get_type_of_tool returning the "tool" token in place of the tool's name
get_type_of_tool_ToolToken(cd_path) ==
  LET list_cd_path == cd_path
  IN IF Len(list_cd_path) < 5 THEN Raise("IndexError")
     ELSE IF list_cd_path[5] # "revision" THEN Raise("RevisionNotFound")
     ELSE IF ~EndsWithJson(list_cd_path[Len(list_cd_path)])
       THEN Raise("NoJsonExtension")
     ELSE IF Len(list_cd_path) = 9
       THEN IF list_cd_path[7] # "tool" THEN Raise("ToolNotFound")
            ELSE IF list_cd_path[8] \notin
                      {"scancode", "licensee", "clearlydefined", "fossology"}
              THEN Raise("ToolNotSupported")
            ELSE Return(list_cd_path[7])
     ELSE IF Len(list_cd_path) = 6 THEN Return("definition")
     ELSE Raise("InvalidComponents")

get_type_of_tool(cd_path) ==
  LET list_cd_path == cd_path
  IN IF Len(list_cd_path) < 5 THEN Raise("IndexError")
     ELSE IF list_cd_path[5] # "revision" THEN Raise("RevisionNotFound")
     ELSE IF ~EndsWithJson(list_cd_path[Len(list_cd_path)])
       THEN Raise("NoJsonExtension")
     ELSE IF Len(list_cd_path) = 9
       THEN IF list_cd_path[7] # "tool" THEN Raise("ToolNotFound")
            ELSE IF list_cd_path[8] \notin
                      {"scancode", "licensee", "clearlydefined", "fossology"}
              THEN Raise("ToolNotSupported")
            ELSE Return(list_cd_path[8])
     ELSE IF Len(list_cd_path) = 6 THEN Return("definition")
     ELSE Raise("InvalidComponents")

\* ---------------------------------------------------------------- payloads
\* The content column holds gzip.compress(text); the text is either the empty
\* string, <<>>, or one JSON document, <<doc>>.
gzip_compress(text) == <<"gzip", text>>
gzip_decompress(bytes) == bytes[2]
\* bytes that are not a gzip stream make gzip.decompress raise BadGzipFile
NotGzip == <<"raw", <<>>>>
IsGzip(bytes) == bytes[1] = "gzip"
json_loads(metadata_string) == metadata_string[1]

\* A harvest document of a tool: the tool's file array, one record per file
\* carrying the tool's hash field (None when the field is missing).
HarvestDoc(tool, hashes) ==
  [shape |-> tool,
   files |-> [i \in 1..Len(hashes) |->
                [hash |-> hashes[i], index |-> i, shape |-> tool]]]
\* A definition document: described.hashes.gitSha,
\* described.sourceLocation.revision, described.sourceLocation.url and
\* described.hashes.sha1.
DefinitionDocWith(gitSha, revision, url, sha1) ==
  [shape |-> "definition", gitSha |-> gitSha, revision |-> revision,
   url |-> url, sha1 |-> sha1]
\* the same without described.hashes.sha1
DefinitionDoc(gitSha, revision, url) ==
  DefinitionDocWith(gitSha, revision, url, None)

EmptyContent == gzip_compress(<<>>)
ScanContents ==
  {gzip_compress(<<HarvestDoc("scancode", hs)>>) :
     hs \in {<<"a1", "a2">>}}
DefContents ==
  {gzip_compress(<<DefinitionDoc(g, None, "http://central.maven.org/")>>) :
     g \in Revs \cup {None}}
FossContents == {gzip_compress(<<HarvestDoc("fossology", <<"a1">>)>>)}
ContentsFor(path) ==
  IF path = ScanPath THEN {EmptyContent} \cup ScanContents
  ELSE IF path = DefPath THEN {EmptyContent} \cup DefContents
  ELSE IF path = FossPath THEN {EmptyContent} \cup FossContents
  ELSE {EmptyContent}

\* ---------------------------------------------------------------- resolver
Falsy(v) == v \in {None, NoHash}

\* a Content object of the archive, and the None that stands for no swhid
Content(sha1) == [found |-> TRUE, sha1 |-> hash_to_bytes(sha1),
                  sha1_git |-> hash_to_bytes(Sha1GitOf(sha1))]
NoSwhid == <<>>

\* storage.content_get([sha1])[0]: the Content with that sha1, or None
NoContent == [found |-> FALSE]
content_get(contents, sha1_bytes) ==
  IF \E c \in contents : c.sha1 = sha1_bytes
    THEN CHOOSE c \in contents : c.sha1 = sha1_bytes
    ELSE NoContent

\* map_sha1_with_swhid building the swhid from the sha1 it was given
map_sha1_with_swhid_FromInput(contents, sha1) ==
  IF Falsy(sha1) THEN NoSwhid
  ELSE LET content == content_get(contents, hash_to_bytes(sha1))
       IN IF ~content.found THEN NoSwhid
          ELSE <<"swh", 1, "cnt", sha1>>

map_sha1_with_swhid(contents, sha1) ==
  IF Falsy(sha1) THEN NoSwhid
  ELSE LET content == content_get(contents, hash_to_bytes(sha1))
       IN IF ~content.found THEN NoSwhid
          ELSE <<"swh", 1, "cnt", hash_to_hex(content.sha1_git)>>

\* storage.revision_missing([id]): the ids of the probe that are not there
revision_missing(revisions, ids) == {id \in ids : id \notin revisions}

\* sha1_git_in_revisions finding every revision
sha1_git_in_revisions_Always(revisions, sha1_git) == TRUE

sha1_git_in_revisions(revisions, sha1_git) ==
  LET sha1_git_bytes == hash_to_bytes(sha1_git)
      missing_revision == revision_missing(revisions, {sha1_git_bytes})
  IN Cardinality(missing_revision) = 0

\* ---------------------------------------------------------------- entries
map_row_data_with_metadata(swh_id, type, origin, metadata, date, format) ==
  [type |-> type, target |-> swh_id, discovery_date |-> date,
   format |-> format, origin |-> origin, metadata |-> metadata]

\* map_sha1_and_add_in_data leaving mapping_status as it was on a hash that
\* did not resolve
map_sha1_and_add_in_data_StatusKept(contents, sha1, data, file, date, format, mapping_status) ==
  IF ~Falsy(sha1)
    THEN LET swh_id == map_sha1_with_swhid(contents, sha1)
         IN IF swh_id # NoSwhid
              THEN [status |-> mapping_status,
                    data |-> Append(data,
                       map_row_data_with_metadata(swh_id, "content", None,
                                                  file, date, format))]
              ELSE [status |-> mapping_status, data |-> data]
    ELSE [status |-> mapping_status, data |-> data]

\* map_sha1_and_add_in_data emptying `data` on a hash that did not resolve
map_sha1_and_add_in_data_DropsEarlier(contents, sha1, data, file, date, format, mapping_status) ==
  IF ~Falsy(sha1)
    THEN LET swh_id == map_sha1_with_swhid(contents, sha1)
         IN IF swh_id # NoSwhid
              THEN [status |-> mapping_status,
                    data |-> Append(data,
                       map_row_data_with_metadata(swh_id, "content", None,
                                                  file, date, format))]
              ELSE [status |-> FALSE, data |-> <<>>]
    ELSE [status |-> mapping_status, data |-> data]

\* map_sha1_and_add_in_data giving the entry of a file an origin
map_sha1_and_add_in_data_WithOrigin(contents, sha1, data, file, date, format, mapping_status) ==
  IF ~Falsy(sha1)
    THEN LET swh_id == map_sha1_with_swhid(contents, sha1)
         IN IF swh_id # NoSwhid
              THEN [status |-> mapping_status,
                    data |-> Append(data,
                       map_row_data_with_metadata(swh_id, "content",
                                                  "http://central.maven.org/",
                                                  file, date, format))]
              ELSE [status |-> FALSE, data |-> data]
    ELSE [status |-> mapping_status, data |-> data]

\* map_sha1_and_add_in_data counting a file with no hash as not resolved
map_sha1_and_add_in_data_NoHashFails(contents, sha1, data, file, date, format, mapping_status) ==
  IF ~Falsy(sha1)
    THEN LET swh_id == map_sha1_with_swhid(contents, sha1)
         IN IF swh_id # NoSwhid
              THEN [status |-> mapping_status,
                    data |-> Append(data,
                       map_row_data_with_metadata(swh_id, "content", None,
                                                  file, date, format))]
              ELSE [status |-> FALSE, data |-> data]
    ELSE [status |-> FALSE, data |-> data]

\* returns the new mapping_status and the list `data` after the call
map_sha1_and_add_in_data(contents, sha1, data, file, date, format, mapping_status) ==
  IF ~Falsy(sha1)
    THEN LET swh_id == map_sha1_with_swhid(contents, sha1)
         IN IF swh_id # NoSwhid
              THEN [status |-> mapping_status,
                    data |-> Append(data,
                       map_row_data_with_metadata(swh_id, "content", None,
                                                  file, date, format))]
              ELSE [status |-> FALSE, data |-> data]
    ELSE [status |-> mapping_status, data |-> data]

\* the file array a tool's extractor reads: missing objects count as empty
FilesOf(metadata, tool) ==
  IF metadata.shape = tool THEN metadata.files ELSE <<>>

RECURSIVE MapFiles(_, _, _, _, _)
\* the `for file in files` loop of map_scancode / map_licensee /
\* map_clearlydefined, over the first i files
MapFiles(contents, files, i, date, format) ==
  IF i = 0 THEN [status |-> TRUE, data |-> <<>>]
  ELSE LET before == MapFiles(contents, files, i - 1, date, format)
           file == files[i]
           one == map_sha1_and_add_in_data(contents, file.hash, before.data,
                                           file, date, format, TRUE)
       IN [status |-> one.status /\ before.status, data |-> one.data]

map_scancode(contents, metadata, date) ==
  LET files == FilesOf(metadata, "scancode")
  IN MapFiles(contents, files, Len(files), date,
              "clearlydefined-harvest-scancode-json")

map_licensee(contents, metadata, date) ==
  LET files == FilesOf(metadata, "licensee")
  IN MapFiles(contents, files, Len(files), date,
              "clearlydefined-harvest-licensee-json")

map_clearlydefined(contents, metadata, date) ==
  LET files == FilesOf(metadata, "clearlydefined")
  IN MapFiles(contents, files, Len(files), date,
              "clearlydefined-harvest-clearlydefined-json")

\* tools[tool](...): the dictionary has no entry for fossology
map_harvest(contents, tool, metadata, date) ==
  IF tool \notin {"scancode", "licensee", "clearlydefined"}
    THEN Raise("KeyError")
  ELSE IF tool = "scancode"
    THEN Return(map_scancode(contents, metadata, date))
  ELSE IF tool = "licensee"
    THEN Return(map_licensee(contents, metadata, date))
  ELSE Return(map_clearlydefined(contents, metadata, date))

\* The mapping_utils of this tree returns booleans and None; the orchestrator
\* and the tests use the MappingStatus of its successor.  The three
\* definitions below and map_row follow the documented behaviour: a harvest
\* is MAPPED when every listed hash resolved and UNMAPPED otherwise, an empty
\* payload is UNMAPPED, a definition is MAPPED, UNMAPPED or IGNORE.
StatusOf(mapping_status) == IF mapping_status THEN MAPPED ELSE UNMAPPED

\* a 40-digit hexadecimal string
is_sha1(s) == s \in Revs \cup {Rev2}

\* map_definition reading sourceLocation.revision before hashes.gitSha
map_definition_RevisionFirst(revisions, metadata, date) ==
  LET gitSha == IF metadata.shape = "definition" THEN metadata.gitSha
                ELSE None
      revision == IF metadata.shape = "definition" THEN metadata.revision
                  ELSE None
      url == IF metadata.shape = "definition" THEN metadata.url ELSE None
      origin == IF Falsy(url) THEN None ELSE url
      sha1_git == IF Falsy(revision) THEN gitSha ELSE revision
  IN IF Falsy(sha1_git) THEN Return([status |-> IGNORE, data |-> <<>>])
     ELSE IF ~is_sha1(sha1_git)
       THEN Return([status |-> IGNORE, data |-> <<>>])
     ELSE IF ~sha1_git_in_revisions(revisions, sha1_git)
       THEN Return([status |-> UNMAPPED, data |-> <<>>])
     ELSE Return([status |-> MAPPED,
                  data |-> <<map_row_data_with_metadata(
                               <<"swh", 1, "rev", sha1_git>>, "revision",
                               origin, metadata, date,
                               "clearlydefined-definition-json")>>])

\* map_definition as it was before MappingStatus: with no gitSha it resolves
\* described.hashes.sha1 as a content
map_definition_Sha1Fallback(revisions, metadata, date) ==
  LET gitSha == IF metadata.shape = "definition" THEN metadata.gitSha
                ELSE None
      sha1 == IF metadata.shape = "definition" THEN metadata.sha1 ELSE None
      url == IF metadata.shape = "definition" THEN metadata.url ELSE None
      origin == IF Falsy(url) THEN None ELSE url
  IN IF ~Falsy(gitSha)
       THEN IF ~is_sha1(gitSha)
              THEN Return([status |-> IGNORE, data |-> <<>>])
            ELSE IF ~sha1_git_in_revisions(revisions, gitSha)
              THEN Return([status |-> UNMAPPED, data |-> <<>>])
            ELSE Return([status |-> MAPPED,
                         data |-> <<map_row_data_with_metadata(
                                      <<"swh", 1, "rev", gitSha>>, "revision",
                                      origin, metadata, date,
                                      "clearlydefined-definition-json")>>])
     ELSE IF ~Falsy(sha1)
       THEN Return([status |-> MAPPED,
                    data |-> <<map_row_data_with_metadata(
                                 <<"swh", 1, "cnt", Sha1GitOf(sha1)>>,
                                 "content", origin, metadata, date,
                                 "clearlydefined-definition-json")>>])
     ELSE Return([status |-> IGNORE, data |-> <<>>])

map_definition(revisions, metadata, date) ==
  LET gitSha == IF metadata.shape = "definition" THEN metadata.gitSha
                ELSE None
      revision == IF metadata.shape = "definition" THEN metadata.revision
                  ELSE None
      url == IF metadata.shape = "definition" THEN metadata.url ELSE None
      origin == IF Falsy(url) THEN None ELSE url
      sha1_git == IF Falsy(gitSha) THEN revision ELSE gitSha
  IN IF Falsy(sha1_git) THEN Return([status |-> IGNORE, data |-> <<>>])
     ELSE IF ~is_sha1(sha1_git)
       THEN Return([status |-> IGNORE, data |-> <<>>])
     ELSE IF ~sha1_git_in_revisions(revisions, sha1_git)
       THEN Return([status |-> UNMAPPED, data |-> <<>>])
     ELSE Return([status |-> MAPPED,
                  data |-> <<map_row_data_with_metadata(
                               <<"swh", 1, "rev", sha1_git>>, "revision",
                               origin, metadata, date,
                               "clearlydefined-definition-json")>>])

\* map_row reading the payload before it checks the identifier
map_row_PayloadFirst(contents, revisions, metadata, id, date) ==
  LET tool == get_type_of_tool(id)
  IN IF ~IsGzip(metadata) THEN Raise("BadGzipFile")
     ELSE IF gzip_decompress(metadata) = <<>>
       THEN Return([status |-> UNMAPPED, data |-> <<>>])
     ELSE IF tool.raised THEN tool
     ELSE IF tool.value = "definition"
       THEN map_definition(revisions,
                           json_loads(gzip_decompress(metadata)), date)
     ELSE LET r == map_harvest(contents, tool.value,
                               json_loads(gzip_decompress(metadata)), date)
          IN IF r.raised THEN r
             ELSE Return([status |-> StatusOf(r.value.status),
                          data |-> r.value.data])

map_row(contents, revisions, metadata, id, date) ==
  LET tool == get_type_of_tool(id)
  IN IF tool.raised THEN tool
     ELSE IF ~IsGzip(metadata) THEN Raise("BadGzipFile")
     ELSE LET metadata_string == gzip_decompress(metadata)
          IN IF metadata_string = <<>>
               THEN Return([status |-> UNMAPPED, data |-> <<>>])
             ELSE IF tool.value = "definition"
               THEN map_definition(revisions, json_loads(metadata_string),
                                   date)
             ELSE LET r == map_harvest(contents, tool.value,
                                       json_loads(metadata_string), date)
                  IN IF r.raised THEN r
                     ELSE Return([status |-> StatusOf(r.value.status),
                                  data |-> r.value.data])

\* --------------------------------------------------------- archive lookups
\* The lookups a call issues, in the order it issues them: content_get for a
\* sha1, revision_missing for a revision id.
Lookup(fn, arg) == [fn |-> fn, arg |-> arg]

\* map_sha1_with_swhid asking the archive before it looks at the sha1
map_sha1_with_swhid_lookups_Always(sha1) ==
  <<Lookup("content_get", hash_to_bytes(sha1))>>

map_sha1_with_swhid_lookups(sha1) ==
  IF Falsy(sha1) THEN <<>>
  ELSE <<Lookup("content_get", hash_to_bytes(sha1))>>

map_sha1_and_add_in_data_lookups(sha1) ==
  IF ~Falsy(sha1) THEN map_sha1_with_swhid_lookups(sha1) ELSE <<>>

RECURSIVE MapFilesLookups(_, _)
\* the lookups of the `for file in files` loop over the first i files
MapFilesLookups(files, i) ==
  IF i = 0 THEN <<>>
  ELSE MapFilesLookups(files, i - 1)
         \o map_sha1_and_add_in_data_lookups(files[i].hash)

map_harvest_lookups(tool, metadata) ==
  IF tool \notin {"scancode", "licensee", "clearlydefined"} THEN <<>>
  ELSE LET files == FilesOf(metadata, tool)
       IN MapFilesLookups(files, Len(files))

sha1_git_in_revisions_lookups(sha1_git) ==
  <<Lookup("revision_missing", hash_to_bytes(sha1_git))>>

map_definition_lookups(metadata) ==
  LET gitSha == IF metadata.shape = "definition" THEN metadata.gitSha
                ELSE None
      revision == IF metadata.shape = "definition" THEN metadata.revision
                  ELSE None
      sha1_git == IF Falsy(gitSha) THEN revision ELSE gitSha
  IN IF Falsy(sha1_git) THEN <<>>
     ELSE IF ~is_sha1(sha1_git) THEN <<>>
     ELSE sha1_git_in_revisions_lookups(sha1_git)

map_row_lookups(metadata, id) ==
  LET tool == get_type_of_tool(id)
  IN IF tool.raised THEN <<>>
     ELSE IF ~IsGzip(metadata) THEN <<>>
     ELSE LET metadata_string == gzip_decompress(metadata)
          IN IF metadata_string = <<>> THEN <<>>
             ELSE IF tool.value = "definition"
               THEN map_definition_lookups(json_loads(metadata_string))
             ELSE map_harvest_lookups(tool.value, json_loads(metadata_string))

\* ------------------------------------------------------------------- state
VARIABLES
  clearcode_cditem,        \* staging table: path -> [content, last_modified_date]
  unmapped_data,           \* retry table: set of paths
  clearcode_env,           \* the rows of key 'date': sequence of stored values
  content,                 \* archive: Content objects
  revision,                \* archive: revision ids
  raw_extrinsic_metadata,  \* archive: the entries added
  metadata_authority,      \* archive: registered authorities
  metadata_fetcher,        \* archive: registered fetchers
  pc,                      \* position of the run in orchestrator()
  retry_rows,              \* paths of the retry query still to be handled
  date,                    \* the watermark read by get_last_run_date
  rows,                    \* rows of the scan query still to be handled
  raised,                  \* exception that ended the last run, or None
  attempt,                 \* history: the last record handled by a run
  log,                     \* history: the records handled by the current run
  fetched,                 \* history: the result of the run's scan query
  before,                  \* history: the tables as the run found them
  was_mapped,              \* history: paths an earlier run mapped, not
                           \*   updated since
  changed,                 \* history: the tables changed since the last run
  call,                    \* a direct call of a mapping_utils function
  returned,                \* what that call returned or raised
  queries,                 \* the archive lookups that call issued
  added                    \* the entries handed to raw_extrinsic_metadata_add
                           \*   by each call of orchestrate_row, in order

vars == <<clearcode_cditem, unmapped_data, clearcode_env, content, revision,
          raw_extrinsic_metadata, metadata_authority, metadata_fetcher,
          pc, retry_rows, date, rows, raised, attempt, log, fetched,
          before, was_mapped, changed, call, returned, queries, added>>

db == <<clearcode_cditem, unmapped_data, clearcode_env>>
archive == <<content, revision>>
sink == <<raw_extrinsic_metadata, metadata_authority, metadata_fetcher>>
locals == <<retry_rows, date, rows>>
history == <<attempt, log, fetched, before, was_mapped>>
calls == <<call, returned, queries, added>>

Dates == 1..MaxDate
\* the None of an Optional[datetime]
NoDate == 0
AUTHORITY == [type |-> "registry", url |-> "https://clearlydefined.io/"]
FETCHER == [name |-> "swh-clearlydefined", version |-> "0.0.1"]

\* the value column is text: what the driver writes for a date, and isoparse
date_to_text(d) == <<"iso", d>>
isoparse(text) == text[2]

Row(path, metadata, d) == [path |-> path, metadata |-> metadata, date |-> d]
RowOf(path) == Row(path, clearcode_cditem[path].content,
                   clearcode_cditem[path].last_modified_date)

NoAttempt == [phase |-> None, path |-> <<>>, status |-> None]
Attempt(phase, path, status) ==
  [phase |-> phase, path |-> path, status |-> status]
NoPath == <<>>
NotStarted == [started |-> FALSE, quiet |-> FALSE, env |-> <<>>,
               unmapped |-> {}, in_flight |-> NoPath]
NoCall == [fn |-> None, id |-> <<>>, metadata |-> <<>>, date |-> NoDate,
           sha1 |-> None]

Init ==
  /\ clearcode_cditem = <<>>
  /\ unmapped_data = {}
  /\ clearcode_env = <<>>
  /\ content = {}
  /\ revision = {}
  /\ raw_extrinsic_metadata = {}
  /\ metadata_authority = {}
  /\ metadata_fetcher = {}
  /\ pc = "idle"
  /\ retry_rows = {}
  /\ date = NoDate
  /\ rows = <<>>
  /\ raised = None
  /\ attempt = NoAttempt
  /\ log = {}
  /\ fetched = <<>>
  /\ before = NotStarted
  /\ was_mapped = {}
  /\ changed = TRUE
  /\ call = NoCall
  /\ returned = Return(None)
  /\ queries = <<>>
  /\ added = <<>>

\* ------------------------------------------------------------ orchestrator
write_in_storage(rem, metadata) == rem \cup {metadata}

RECURSIVE write_data_from_list(_, _)
write_data_from_list(rem, metadata_list) ==
  IF metadata_list = <<>> THEN rem
  ELSE write_data_from_list(write_in_storage(rem, Head(metadata_list)),
                            Tail(metadata_list))

\* write_in_not_mapped inserting the path without its last component
write_in_not_mapped_Truncated(unmapped, cd_path) ==
  unmapped \cup {SubSeq(cd_path, 1, Len(cd_path) - 1)}

\* INSERT ... ON CONFLICT (path) DO NOTHING, committed
write_in_not_mapped(unmapped, cd_path) == unmapped \cup {cd_path}

\* what orchestrate_row hands back: the value returned ("True", "False",
\* "None"), the exception raised if any, the outcome of map_row and both
\* tables after the call
Result(kind, ret, status, unmapped, rem) ==
  [raised |-> kind, ret |-> ret, status |-> status,
   unmapped_data |-> unmapped, raw_extrinsic_metadata |-> rem]

\* orchestrate_row with the entries of an UNMAPPED row left unwritten
orchestrate_row_UnmappedUnwritten(contents, revisions, unmapped, rem, row) ==
  LET able_to_be_mapped ==
        map_row(contents, revisions, row.metadata, row.path, row.date)
      mapping_status == able_to_be_mapped.value.status
      metadata_list == able_to_be_mapped.value.data
  IN IF able_to_be_mapped.raised
       THEN Result(able_to_be_mapped.kind, "None", "raised", unmapped, rem)
     ELSE IF mapping_status = IGNORE
       THEN Result(None, "None", mapping_status, unmapped, rem)
     ELSE IF mapping_status = UNMAPPED
       THEN Result(None, "False", mapping_status,
                   write_in_not_mapped(unmapped, row.path), rem)
     ELSE Result(None, "True", mapping_status, unmapped,
                 write_data_from_list(rem, metadata_list))

\* orchestrate_row with IGNORE handled as UNMAPPED is
orchestrate_row_IgnoreAsUnmapped(contents, revisions, unmapped, rem, row) ==
  LET able_to_be_mapped ==
        map_row(contents, revisions, row.metadata, row.path, row.date)
      mapping_status == able_to_be_mapped.value.status
      metadata_list == able_to_be_mapped.value.data
  IN IF able_to_be_mapped.raised
       THEN Result(able_to_be_mapped.kind, "None", "raised", unmapped, rem)
     ELSE IF mapping_status \in {IGNORE, UNMAPPED}
       THEN Result(None, "False", mapping_status,
                   write_in_not_mapped(unmapped, row.path),
                   write_data_from_list(rem, metadata_list))
     ELSE Result(None, "True", mapping_status, unmapped,
                 write_data_from_list(rem, metadata_list))

\* orchestrate_row leaving the path of an UNMAPPED row out of unmapped_data
orchestrate_row_UnmappedNotInserted(contents, revisions, unmapped, rem, row) ==
  LET able_to_be_mapped ==
        map_row(contents, revisions, row.metadata, row.path, row.date)
      mapping_status == able_to_be_mapped.value.status
      metadata_list == able_to_be_mapped.value.data
  IN IF able_to_be_mapped.raised
       THEN Result(able_to_be_mapped.kind, "None", "raised", unmapped, rem)
     ELSE IF mapping_status = IGNORE
       THEN Result(None, "None", mapping_status, unmapped, rem)
     ELSE IF mapping_status = UNMAPPED
       THEN Result(None, "False", mapping_status, unmapped,
                   write_data_from_list(rem, metadata_list))
     ELSE Result(None, "True", mapping_status, unmapped,
                 write_data_from_list(rem, metadata_list))

\* orchestrate_row catching the exception of map_row and keeping the row for
\* a later run
orchestrate_row_ErrorAsUnmapped(contents, revisions, unmapped, rem, row) ==
  LET able_to_be_mapped ==
        map_row(contents, revisions, row.metadata, row.path, row.date)
      mapping_status == able_to_be_mapped.value.status
      metadata_list == able_to_be_mapped.value.data
  IN IF able_to_be_mapped.raised
       THEN Result(None, "False", UNMAPPED,
                   write_in_not_mapped(unmapped, row.path), rem)
     ELSE IF mapping_status = IGNORE
       THEN Result(None, "None", mapping_status, unmapped, rem)
     ELSE IF mapping_status = UNMAPPED
       THEN Result(None, "False", mapping_status,
                   write_in_not_mapped(unmapped, row.path),
                   write_data_from_list(rem, metadata_list))
     ELSE Result(None, "True", mapping_status, unmapped,
                 write_data_from_list(rem, metadata_list))

\* orchestrate_row with a plain INSERT in write_in_not_mapped: the unique
\* index on path makes the INSERT of a path that is there raise
orchestrate_row_InsertRaisesOnMember(contents, revisions, unmapped, rem, row) ==
  LET able_to_be_mapped ==
        map_row(contents, revisions, row.metadata, row.path, row.date)
      mapping_status == able_to_be_mapped.value.status
      metadata_list == able_to_be_mapped.value.data
  IN IF able_to_be_mapped.raised
       THEN Result(able_to_be_mapped.kind, "None", "raised", unmapped, rem)
     ELSE IF mapping_status = IGNORE
       THEN Result(None, "None", mapping_status, unmapped, rem)
     ELSE IF mapping_status = UNMAPPED
       THEN IF row.path \in unmapped
              THEN Result("UniqueViolation", "None", "raised", unmapped, rem)
            ELSE Result(None, "False", mapping_status,
                        write_in_not_mapped(unmapped, row.path),
                        write_data_from_list(rem, metadata_list))
     ELSE Result(None, "True", mapping_status, unmapped,
                 write_data_from_list(rem, metadata_list))

orchestrate_row(contents, revisions, unmapped, rem, row) ==
  LET able_to_be_mapped ==
        map_row(contents, revisions, row.metadata, row.path, row.date)
      mapping_status == able_to_be_mapped.value.status
      metadata_list == able_to_be_mapped.value.data
  IN IF able_to_be_mapped.raised
       THEN Result(able_to_be_mapped.kind, "None", "raised", unmapped, rem)
     ELSE IF mapping_status = IGNORE
       THEN Result(None, "None", mapping_status, unmapped, rem)
     ELSE IF mapping_status = UNMAPPED
       THEN Result(None, "False", mapping_status,
                   write_in_not_mapped(unmapped, row.path),
                   write_data_from_list(rem, metadata_list))
     ELSE Result(None, "True", mapping_status, unmapped,
                 write_data_from_list(rem, metadata_list))

\* orchestrate_row handing to the archive only the entries it does not hold
orchestrate_row_adds_OnlyNew(contents, revisions, rem, row) ==
  LET able_to_be_mapped ==
        map_row(contents, revisions, row.metadata, row.path, row.date)
  IN IF able_to_be_mapped.raised THEN <<>>
     ELSE IF able_to_be_mapped.value.status = IGNORE THEN <<>>
     ELSE SelectSeq(able_to_be_mapped.value.data,
                    LAMBDA metadata : metadata \notin rem)

\* the entries a call of orchestrate_row hands to raw_extrinsic_metadata_add,
\* one call of write_in_storage each, in the order of write_data_from_list
orchestrate_row_adds(contents, revisions, rem, row) ==
  LET able_to_be_mapped ==
        map_row(contents, revisions, row.metadata, row.path, row.date)
  IN IF able_to_be_mapped.raised THEN <<>>
     ELSE IF able_to_be_mapped.value.status = IGNORE THEN <<>>
     ELSE able_to_be_mapped.value.data

\* `if orchestrate_row(...)`: the truth value of an Optional[bool]
Truthy(ret) == ret = "True"

\* the run ends, normally (kind = None) or by an exception
EndRun(kind) ==
  /\ pc' = "idle"
  /\ raised' = kind
  /\ retry_rows' = {}
  /\ rows' = <<>>
  /\ date' = NoDate
  /\ changed' = FALSE
  /\ was_mapped' = was_mapped \cup {a.path : a \in {b \in log' : b.status = MAPPED}}

\* the run goes on
Continue == UNCHANGED <<raised, changed, was_mapped>>

Handled(a) == attempt' = a /\ log' = log \cup {a}

\* orchestrator() going to the retry loop without a call of init_storage
init_storage_LeftOut ==
  /\ pc = "idle"
  /\ UNCHANGED <<metadata_authority, metadata_fetcher>>
  /\ pc' = "map_previously_unmapped_data"
  /\ raised' = None
  /\ attempt' = NoAttempt
  /\ log' = {}
  /\ fetched' = <<>>
  /\ before' = [started |-> TRUE, quiet |-> ~changed,
                env |-> clearcode_env, unmapped |-> unmapped_data,
                in_flight |-> IF raised = "crash" THEN attempt.path
                              ELSE NoPath]
  /\ UNCHANGED <<db, archive, raw_extrinsic_metadata, locals, changed,
                 was_mapped>>
  /\ UNCHANGED calls

\* orchestrator(): connect, then init_storage
init_storage ==
  /\ pc = "idle"
  /\ metadata_authority' = metadata_authority \cup {AUTHORITY}
  /\ metadata_fetcher' = metadata_fetcher \cup {FETCHER}
  /\ pc' = "map_previously_unmapped_data"
  /\ raised' = None
  /\ attempt' = NoAttempt
  /\ log' = {}
  /\ fetched' = <<>>
  /\ before' = [started |-> TRUE, quiet |-> ~changed,
                env |-> clearcode_env, unmapped |-> unmapped_data,
                in_flight |-> IF raised = "crash" THEN attempt.path
                              ELSE NoPath]
  /\ UNCHANGED <<db, archive, raw_extrinsic_metadata, locals, changed,
                 was_mapped>>
  /\ UNCHANGED calls

\* map_previously_unmapped_data: SELECT path FROM unmapped_data
SelectUnmapped ==
  /\ pc = "map_previously_unmapped_data"
  /\ retry_rows' = unmapped_data
  /\ pc' = "retry"
  /\ Continue
  /\ UNCHANGED <<db, archive, sink, date, rows, history>>
  /\ UNCHANGED calls

\* the retry loop without its DELETE
DeleteIfMapped_Never(unmapped, cd_path, ret) == unmapped

\* unmapped_data after the body of the retry loop for cd_path
DeleteIfMapped(unmapped, cd_path, ret) ==
  IF Truthy(ret) THEN unmapped \ {cd_path} ELSE unmapped

\* map_previously_unmapped_data: one iteration of `for row in rows`
RetryRow ==
  /\ pc = "retry"
  /\ \E cd_path \in retry_rows :
       IF cd_path \notin DOMAIN clearcode_cditem
         THEN /\ Handled(Attempt("retry", cd_path, "raised"))
              /\ EndRun("IndexError")
              /\ UNCHANGED <<db, raw_extrinsic_metadata>>
       ELSE LET r == orchestrate_row(content, revision, unmapped_data,
                                     raw_extrinsic_metadata, RowOf(cd_path))
            IN /\ Handled(Attempt("retry", cd_path, r.status))
               /\ raw_extrinsic_metadata' = r.raw_extrinsic_metadata
               /\ UNCHANGED <<clearcode_cditem, clearcode_env>>
               /\ IF r.raised # None
                    THEN /\ EndRun(r.raised)
                         /\ UNCHANGED unmapped_data
                    ELSE /\ unmapped_data' =
                              DeleteIfMapped(r.unmapped_data, cd_path, r.ret)
                         /\ retry_rows' = retry_rows \ {cd_path}
                         /\ Continue
                         /\ UNCHANGED <<pc, date, rows>>
  /\ UNCHANGED <<archive, metadata_authority, metadata_fetcher, fetched,
                 before>>
  /\ UNCHANGED calls

\* get_last_run_date, once the retry loop is over
get_last_run_date ==
  /\ pc = "retry"
  /\ retry_rows = {}
  /\ date' = IF Len(clearcode_env) < 1 THEN NoDate
             ELSE isoparse(clearcode_env[1])
  /\ pc' = "read_from_clearcode_and_write_in_swh"
  /\ Continue
  /\ UNCHANGED <<db, archive, sink, retry_rows, rows, history>>
  /\ UNCHANGED calls

\* the scan query with <= in place of <
Selected_AtOrBefore(cditem, d) ==
  IF d # NoDate
    THEN {p \in DOMAIN cditem : cditem[p].last_modified_date <= d}
    ELSE DOMAIN cditem

\* the paths the scan query selects for the watermark d
Selected(cditem, d) ==
  IF d # NoDate
    THEN {p \in DOMAIN cditem : cditem[p].last_modified_date < d}
    ELSE DOMAIN cditem

\* the results the query may return: ORDER BY last_modified_date DESC
Ordered(cditem, paths) ==
  {s \in [1..Cardinality(paths) -> paths] :
     /\ \A i, j \in DOMAIN s : i # j => s[i] # s[j]
     /\ \A i, j \in DOMAIN s :
          i < j => cditem[s[i]].last_modified_date
                     >= cditem[s[j]].last_modified_date}

\* the rows of clearcode_env after write_next_date
write_next_date(env, previous_date, new_date) ==
  IF previous_date = NoDate
    THEN Append(env, date_to_text(new_date))
    ELSE [i \in DOMAIN env |-> date_to_text(new_date)]

\* the date of the last row taken instead of the first
NewDate_LastRow(result) == result[Len(result)].date

\* the date that read_from_clearcode_and_write_in_swh stores
NewDate(result) == result[1].date

\* read_from_clearcode_and_write_in_swh writing the date before it looks at
\* the number of rows: the date it read when there is no row
ScanQuery_WritesDateFirst ==
  /\ pc = "read_from_clearcode_and_write_in_swh"
  /\ UNCHANGED <<clearcode_cditem, unmapped_data, archive, sink, attempt,
                 log, before>>
  /\ \E s \in Ordered(clearcode_cditem, Selected(clearcode_cditem, date)) :
       LET result == [i \in DOMAIN s |-> RowOf(s[i])]
       IN /\ fetched' = result
          /\ IF Len(result) < 1
               THEN /\ EndRun(None)
                    /\ clearcode_env' =
                         write_next_date(clearcode_env, date, date)
               ELSE /\ clearcode_env' =
                         write_next_date(clearcode_env, date, NewDate(result))
                    /\ rows' = result
                    /\ pc' = "scan"
                    /\ Continue
                    /\ UNCHANGED <<retry_rows, date>>
  /\ UNCHANGED calls

\* read_from_clearcode_and_write_in_swh up to its loop
ScanQuery ==
  /\ pc = "read_from_clearcode_and_write_in_swh"
  /\ UNCHANGED <<clearcode_cditem, unmapped_data, archive, sink, attempt,
                 log, before>>
  /\ \E s \in Ordered(clearcode_cditem, Selected(clearcode_cditem, date)) :
       LET result == [i \in DOMAIN s |-> RowOf(s[i])]
       IN /\ fetched' = result
          /\ IF Len(result) < 1
               THEN /\ EndRun(None)
                    /\ UNCHANGED clearcode_env
               ELSE /\ clearcode_env' =
                         write_next_date(clearcode_env, date, NewDate(result))
                    /\ rows' = result
                    /\ pc' = "scan"
                    /\ Continue
                    /\ UNCHANGED <<retry_rows, date>>
  /\ UNCHANGED calls

\* the scan loop passing over no row
Skipped_Nothing(tool) == FALSE

\* rows whose tool the scan loop passes over
Skipped(tool) == tool = "fossology"

\* read_from_clearcode_and_write_in_swh: one iteration of `for row in rows`
ScanRow ==
  /\ pc = "scan"
  /\ rows # <<>>
  /\ LET row == Head(rows)
         tool == get_type_of_tool(row.path)
     IN IF tool.raised
          THEN /\ Handled(Attempt("scan", row.path, "invalid"))
               /\ EndRun(tool.kind)
               /\ UNCHANGED <<db, raw_extrinsic_metadata>>
        ELSE IF Skipped(tool.value)
          THEN /\ Handled(Attempt("scan", row.path, "skipped"))
               /\ rows' = Tail(rows)
               /\ Continue
               /\ UNCHANGED <<db, raw_extrinsic_metadata, pc, retry_rows,
                              date>>
        ELSE LET r == orchestrate_row(content, revision, unmapped_data,
                                      raw_extrinsic_metadata, row)
             IN /\ Handled(Attempt("scan", row.path, r.status))
                /\ raw_extrinsic_metadata' = r.raw_extrinsic_metadata
                /\ unmapped_data' = r.unmapped_data
                /\ UNCHANGED <<clearcode_cditem, clearcode_env>>
                /\ IF r.raised # None
                     THEN EndRun(r.raised)
                     ELSE /\ rows' = Tail(rows)
                          /\ Continue
                          /\ UNCHANGED <<pc, retry_rows, date>>
  /\ UNCHANGED <<archive, metadata_authority, metadata_fetcher, fetched,
                 before>>
  /\ UNCHANGED calls

\* read_from_clearcode_and_write_in_swh returns after its loop
ScanDone ==
  /\ pc = "scan"
  /\ rows = <<>>
  /\ UNCHANGED <<db, archive, sink, attempt, log, fetched, before>>
  /\ EndRun(None)
  /\ UNCHANGED calls

\* ------------------------------------------------------------- environment
\* Between two runs the owners of the staging table and of the archive change
\* them: clearcode adds a row, or fetches an item again and updates its row
\* (last_modified_date moves forward); the archive receives objects.
\* what the last run did is history of the tables as they were
Forget ==
  /\ attempt' = NoAttempt
  /\ log' = {}
  /\ fetched' = <<>>
  /\ before' = NotStarted
  /\ changed' = TRUE

PutRow(path, c, d) ==
  clearcode_cditem' =
    [p \in DOMAIN clearcode_cditem \cup {path} |->
       IF p = path THEN [content |-> c, last_modified_date |-> d]
       ELSE clearcode_cditem[p]]

InsertRow ==
  /\ pc = "idle"
  /\ Cardinality(DOMAIN clearcode_cditem) < MaxRows
  /\ \E path \in Paths \ DOMAIN clearcode_cditem :
     \E c \in ContentsFor(path), d \in Dates : PutRow(path, c, d)
  /\ Forget
  /\ UNCHANGED <<unmapped_data, clearcode_env, archive, sink, pc, locals,
                 raised, was_mapped>>
  /\ UNCHANGED calls

UpdateRow ==
  /\ pc = "idle"
  /\ \E path \in DOMAIN clearcode_cditem :
     \E c \in ContentsFor(path), d \in Dates :
       /\ c # clearcode_cditem[path].content
       /\ d >= clearcode_cditem[path].last_modified_date
       /\ PutRow(path, c, d)
       /\ was_mapped' = was_mapped \ {path}
  /\ Forget
  /\ UNCHANGED <<unmapped_data, clearcode_env, archive, sink, pc, locals,
                 raised>>
  /\ UNCHANGED calls

AddContent ==
  /\ pc = "idle"
  /\ \E sha1 \in Sha1s :
       /\ Content(sha1) \notin content
       /\ content' = content \cup {Content(sha1)}
  /\ Forget
  /\ UNCHANGED <<db, revision, sink, pc, locals, raised, was_mapped>>
  /\ UNCHANGED calls

AddRevision ==
  /\ pc = "idle"
  /\ \E id \in Revs :
       /\ hash_to_bytes(id) \notin revision
       /\ revision' = revision \cup {hash_to_bytes(id)}
  /\ Forget
  /\ UNCHANGED <<db, content, sink, pc, locals, raised, was_mapped>>
  /\ UNCHANGED calls

Next ==
  \/ init_storage
  \/ SelectUnmapped
  \/ RetryRow
  \/ get_last_run_date
  \/ ScanQuery
  \/ ScanRow
  \/ ScanDone
  \/ InsertRow
  \/ UpdateRow
  \/ AddContent
  \/ AddRevision

Spec == Init /\ [][Next]_vars

\* ------------------------------------------------------------------- crash
\* The process is killed at any point of a run.  Every write is committed
\* where it is made, so the tables keep what was written: for the row in
\* flight that is any prefix of the writes of orchestrate_row, in its order
\* (write_in_not_mapped first for an UNMAPPED row, then the entries one by
\* one; the DELETE of the retry loop last and so not made).
PartialWrites(unmapped, rem, row) ==
  LET able_to_be_mapped ==
        map_row(content, revision, row.metadata, row.path, row.date)
      mapping_status == able_to_be_mapped.value.status
      metadata_list == able_to_be_mapped.value.data
      nothing == [unmapped_data |-> unmapped, raw_extrinsic_metadata |-> rem]
  IN IF able_to_be_mapped.raised \/ mapping_status = IGNORE THEN {nothing}
     ELSE {nothing} \cup
          {[unmapped_data |-> IF mapping_status = UNMAPPED
                                THEN write_in_not_mapped(unmapped, row.path)
                                ELSE unmapped,
            raw_extrinsic_metadata |->
              write_data_from_list(rem, SubSeq(metadata_list, 1, k))] :
             k \in 0..Len(metadata_list)}

\* the rows a run may be handling where it stands: the next row of the scan
\* loop, any row left to the retry loop, none outside the loops
InFlight ==
  IF pc = "scan" /\ rows # <<>> THEN {Head(rows)}
  ELSE IF pc = "retry" THEN {RowOf(cd_path) : cd_path \in
                               retry_rows \cap DOMAIN clearcode_cditem}
  ELSE {}

Crashed(path) ==
  /\ pc' = "idle"
  /\ raised' = "crash"
  /\ retry_rows' = {}
  /\ rows' = <<>>
  /\ date' = NoDate
  /\ changed' = TRUE
  /\ was_mapped' = was_mapped \cup {a.path : a \in {b \in log : b.status = MAPPED}}
  /\ attempt' = Attempt("crash", path, "in flight")

Crash ==
  /\ pc # "idle"
  /\ \/ /\ Crashed(NoPath)
        /\ UNCHANGED <<unmapped_data, raw_extrinsic_metadata>>
     \/ \E row \in InFlight :
          /\ Crashed(row.path)
          /\ \E w \in IF pc = "scan" /\ (get_type_of_tool(row.path).raised
                                          \/ Skipped(get_type_of_tool(row.path).value))
                         THEN {[unmapped_data |-> unmapped_data,
                                raw_extrinsic_metadata |-> raw_extrinsic_metadata]}
                       ELSE PartialWrites(unmapped_data,
                                          raw_extrinsic_metadata, row) :
               /\ unmapped_data' = w.unmapped_data
               /\ raw_extrinsic_metadata' = w.raw_extrinsic_metadata
  /\ UNCHANGED <<clearcode_cditem, clearcode_env, archive, metadata_authority,
                 metadata_fetcher, log, fetched, before, calls>>

CrashNext ==
  \/ Next
  \/ Crash

CrashSpec == Init /\ [][CrashNext]_vars

\* ------------------------------------------------- mapping_utils, directly
\* The functions of mapping_utils called on their own, as the unit tests call
\* them: on an archive that holds any of the contents and revisions, with any
\* identifier and any payload.
LicenseePath == PathOf(9, "revision", "tool", "licensee", "0.4.0.json")
ClearlyDefinedPath ==
  PathOf(9, "revision", "tool", "clearlydefined", "0.4.0.json")
\* the invalid identifiers of the tests, one for each error, and a short one
InvalidPaths ==
  {BadPath,
   PathOf(6, "revision", "tool", "scancode", "0.4.0.txt"),
   PathOf(7, "revision", "tool", "scancode", "0.4.0.json"),
   PathOf(9, "revision", "abc", "scancode", "0.4.0.json"),
   PathOf(9, "revision", "tool", "unknown", "0.4.0.json"),
   PathOf(4, "revision", "tool", "scancode", "0.4.0.json")}
MapperPaths == Paths \cup {LicenseePath, ClearlyDefinedPath} \cup InvalidPaths

RECURSIVE HashSeqs(_)
\* the hash fields of at most n files: a sha1, the empty string, or None for a
\* missing field
HashSeqs(n) ==
  IF n = 0 THEN {<<>>}
  ELSE LET shorter == HashSeqs(n - 1)
       IN shorter \cup {Append(hs, h) : hs \in {t \in shorter : Len(t) = n - 1},
                                        h \in Sha1s \cup {NoHash, None}}

HarvestDocs(tool) == {HarvestDoc(tool, hs) : hs \in HashSeqs(MaxFiles)}
DefinitionDocs ==
  {DefinitionDocWith(g, r, u, sha1) :
     g \in {None, "4c66", Rev2, BadSha}, r \in {None, "4c66", BadSha},
     u \in {None, "http://central.maven.org/"}, sha1 \in {None, "a1"}}

\* the payloads map_row is called with for an identifier
PayloadsFor(id) ==
  LET tool == get_type_of_tool(id)
      docs == IF tool.raised
                THEN {DefinitionDoc("4c66", None, None),
                      HarvestDoc("scancode", <<"a1">>)}
              ELSE IF tool.value = "definition"
                THEN DefinitionDocs \cup {HarvestDoc("scancode", <<"a1">>)}
              ELSE HarvestDocs(tool.value)
                     \cup {DefinitionDoc("4c66", None, None)}
  IN {EmptyContent, NotGzip} \cup {gzip_compress(<<doc>>) : doc \in docs}

run == <<db, sink, pc, locals, raised, history, changed>>

MapperInit ==
  /\ content \in SUBSET {Content(sha1) : sha1 \in Sha1s}
  /\ revision \in SUBSET {hash_to_bytes(id) : id \in Revs \cup {Rev2}}
  /\ clearcode_cditem = <<>>
  /\ unmapped_data = {}
  /\ clearcode_env = <<>>
  /\ raw_extrinsic_metadata = {}
  /\ metadata_authority = {}
  /\ metadata_fetcher = {}
  /\ pc = "idle"
  /\ retry_rows = {}
  /\ date = NoDate
  /\ rows = <<>>
  /\ raised = None
  /\ attempt = NoAttempt
  /\ log = {}
  /\ fetched = <<>>
  /\ before = NotStarted
  /\ was_mapped = {}
  /\ changed = TRUE
  /\ call = NoCall
  /\ returned = Return(None)
  /\ queries = <<>>
  /\ added = <<>>

\* get_type_of_tool(cd_path)
Call_get_type_of_tool ==
  /\ call = NoCall
  /\ \E cd_path \in ParserPaths :
       /\ call' = [fn |-> "get_type_of_tool", id |-> cd_path,
                   metadata |-> <<>>, date |-> NoDate, sha1 |-> None]
       /\ returned' = get_type_of_tool(cd_path)
  /\ queries' = <<>>
  /\ UNCHANGED <<run, archive, added>>

\* map_row adding the entries it has built to the archive itself
Call_map_row_Writes ==
  /\ call = NoCall
  /\ \E id \in MapperPaths :
     \E metadata \in PayloadsFor(id), d \in Dates :
       LET r == map_row(content, revision, metadata, id, d)
       IN /\ call' = [fn |-> "map_row", id |-> id, metadata |-> metadata,
                      date |-> d, sha1 |-> None]
          /\ returned' = r
          /\ queries' = map_row_lookups(metadata, id)
          /\ raw_extrinsic_metadata' =
               IF r.raised THEN raw_extrinsic_metadata
               ELSE write_data_from_list(raw_extrinsic_metadata, r.value.data)
  /\ UNCHANGED <<db, metadata_authority, metadata_fetcher, pc, locals,
                 raised, history, changed, archive, added>>

\* map_row(storage, metadata, id, date)
Call_map_row ==
  /\ call = NoCall
  /\ \E id \in MapperPaths :
     \E metadata \in PayloadsFor(id), d \in Dates :
       /\ call' = [fn |-> "map_row", id |-> id, metadata |-> metadata,
                   date |-> d, sha1 |-> None]
       /\ returned' = map_row(content, revision, metadata, id, d)
       /\ queries' = map_row_lookups(metadata, id)
  /\ UNCHANGED <<run, archive, added>>

\* map_sha1_with_swhid(storage, sha1)
Call_map_sha1_with_swhid ==
  /\ call = NoCall
  /\ \E sha1 \in Sha1s \cup {WrongSha1, NoHash, None} :
       /\ call' = [fn |-> "map_sha1_with_swhid", id |-> <<>>,
                   metadata |-> <<>>, date |-> NoDate, sha1 |-> sha1]
       /\ returned' = Return(map_sha1_with_swhid(content, sha1))
       /\ queries' = map_sha1_with_swhid_lookups(sha1)
  /\ UNCHANGED <<run, archive, added>>

\* sha1_git_in_revisions(storage, sha1_git)
Call_sha1_git_in_revisions ==
  /\ call = NoCall
  /\ \E sha1_git \in Revs \cup {Rev2} :
       /\ call' = [fn |-> "sha1_git_in_revisions", id |-> <<>>,
                   metadata |-> <<>>, date |-> NoDate, sha1 |-> sha1_git]
       /\ returned' = Return(IF sha1_git_in_revisions(revision, sha1_git)
                               THEN "True" ELSE "False")
       /\ queries' = sha1_git_in_revisions_lookups(sha1_git)
  /\ UNCHANGED <<run, archive, added>>

\* orchestrate_row(storage, cursor, connection, row)
Call_orchestrate_row ==
  /\ call = NoCall
  /\ \E id \in MapperPaths :
     \E metadata \in PayloadsFor(id), d \in Dates :
       LET r == orchestrate_row(content, revision, unmapped_data,
                                raw_extrinsic_metadata, Row(id, metadata, d))
       IN /\ call' = [fn |-> "orchestrate_row", id |-> id,
                      metadata |-> metadata, date |-> d, sha1 |-> None]
          /\ returned' = IF r.raised # None THEN Raise(r.raised)
                         ELSE Return(r.ret)
          /\ queries' = map_row_lookups(metadata, id)
          /\ added' = Append(added,
                              orchestrate_row_adds(content, revision,
                                                   raw_extrinsic_metadata,
                                                   Row(id, metadata, d)))
          /\ unmapped_data' = r.unmapped_data
          /\ raw_extrinsic_metadata' = r.raw_extrinsic_metadata
  /\ UNCHANGED <<clearcode_cditem, clearcode_env, metadata_authority,
                 metadata_fetcher, pc, locals, raised, history, changed,
                 archive>>

MapperNext ==
  \/ Call_get_type_of_tool
  \/ Call_map_row
  \/ Call_map_sha1_with_swhid
  \/ Call_sha1_git_in_revisions
  \/ Call_orchestrate_row

MapperSpec == MapperInit /\ [][MapperNext]_vars

\* ------------------------------------------------------------------ claims
Range(f) == {f[i] : i \in DOMAIN f}

\* the persisted watermark, NoDate when clearcode_env has no 'date' row
Watermark(env) == IF Len(env) < 1 THEN NoDate ELSE isoparse(env[1])

\* the state in which a run has just ended: nothing changed since
RunEnded == pc = "idle" /\ before.started

Outcomes == {MAPPED, UNMAPPED, IGNORE}

\* the entries the Row Mapper yields for the staging record of a path
Entries(path) ==
  LET r == map_row(content, revision, clearcode_cditem[path].content, path,
                   clearcode_cditem[path].last_modified_date)
  IN IF r.raised THEN {} ELSE Range(r.value.data)

\* the hashes the staging record of a path lists
Listed(path) ==
  LET text == gzip_decompress(clearcode_cditem[path].content)
      tool == get_type_of_tool(path)
      doc == json_loads(text)
  IN IF text = <<>> \/ tool.raised THEN {}
     ELSE IF tool.value = "definition"
       THEN IF doc.shape # "definition" THEN {}
            ELSE {h \in {doc.gitSha, doc.revision} : ~Falsy(h)}
     ELSE {f.hash : f \in {g \in Range(FilesOf(doc, tool.value)) :
                             ~Falsy(g.hash)}}

\* the archive holds the object a listed hash names
InArchive(path, h) ==
  IF Len(path) = 6 THEN hash_to_bytes(h) \in revision
  ELSE \E c \in content : c.sha1 = hash_to_bytes(h)

\* C1: in the retry phase a path whose outcome is Mapped or Ignore is removed
\* from unmapped_data and a path whose outcome is Unmapped stays in it.
C1_RetryRemovesIffMappedOrIgnore ==
  (attempt.phase = "retry" /\ attempt.status \in Outcomes)
    => (attempt.path \notin unmapped_data
          <=> attempt.status \in {MAPPED, IGNORE})

\* C2: the watermark after a run is greater than or equal to the watermark
\* the run found, which is the watermark after the run before it.
C2_WatermarkNonDecreasing ==
  before.started => Watermark(clearcode_env) >= Watermark(before.env)

\* C3: a run that starts from the tables as the previous run left them, with
\* no new staging row and no change of the archive in between, ends with the
\* watermark and unmapped_data it found.
C3_SecondRunChangesNothing ==
  (RunEnded /\ before.quiet)
    => /\ clearcode_env = before.env
       /\ unmapped_data = before.unmapped

\* C4: a record that an earlier run mapped and that was not updated since is
\* not passed to the Row Mapper by a later run.
C4_MappedIsNotProcessedAgain ==
  pc # "idle" =>
    \A a \in log : a.status \in Outcomes => a.path \notin was_mapped

\* C5: the scan query returns exactly the records whose last_modified_date is
\* later than the watermark the run read (all records when there is none).
C5_ScansRecordsAfterWatermark ==
  pc = "scan" =>
    {r.path : r \in Range(fetched)} =
      {p \in DOMAIN clearcode_cditem :
         date = NoDate \/ clearcode_cditem[p].last_modified_date > date}

\* C6, as stated: a path that is in unmapped_data when a run starts, and whose
\* record lists only hashes the archive holds, is out of unmapped_data at the
\* end of the run, with the record's entries in the sink.
C6_ResolvableLeavesRetrySet ==
  RunEnded =>
    \A p \in before.unmapped :
      (\A h \in Listed(p) : InArchive(p, h))
        => /\ p \notin unmapped_data
           /\ Entries(p) \subseteq raw_extrinsic_metadata

\* C6, amended: the same for a record that lists at least one hash.
C6_ResolvableWithHashesLeavesRetrySet ==
  RunEnded =>
    \A p \in before.unmapped :
      (Listed(p) # {} /\ \A h \in Listed(p) : InArchive(p, h))
        => /\ p \notin unmapped_data
           /\ Entries(p) \subseteq raw_extrinsic_metadata

C6_Witness ==
  /\ RunEnded
  /\ \E p \in before.unmapped :
       /\ Listed(p) # {}
       /\ \A h \in Listed(p) : InArchive(p, h)
       /\ p \notin unmapped_data
       /\ Entries(p) # {}
       /\ [phase |-> "retry", path |-> p, status |-> MAPPED] \in log

\* C7: a record that the scan phase finds Unmapped has the entries of its
\* resolved hashes in the sink and its path in unmapped_data, up to the end of
\* the run.
C7_UnmappedScanKeepsPartialEntries ==
  \A a \in log :
    (a.phase = "scan" /\ a.status = UNMAPPED)
      => /\ a.path \in unmapped_data
         /\ Entries(a.path) \subseteq raw_extrinsic_metadata

\* a ScanCode harvest of two files of which one resolved, at the end of a run
C7_Witness ==
  /\ RunEnded
  /\ [phase |-> "scan", path |-> ScanPath, status |-> UNMAPPED] \in log
  /\ Cardinality(Listed(ScanPath)) = 2
  /\ Cardinality(Entries(ScanPath)) = 1
  /\ Entries(ScanPath) \subseteq raw_extrinsic_metadata
  /\ ScanPath \in unmapped_data

\* C8: an attempt whose outcome is Mapped or Ignore does not insert the path
\* into unmapped_data, and an attempt whose outcome is Ignore adds no entry.
C8_MappedOrIgnoreInsertsNothing ==
  [][(attempt' # attempt /\ attempt'.status \in {MAPPED, IGNORE})
       => /\ attempt'.path \in unmapped_data'
               => attempt'.path \in unmapped_data
          /\ attempt'.status = IGNORE
               => raw_extrinsic_metadata' = raw_extrinsic_metadata]_vars

C8_Witness ==
  /\ [phase |-> "scan", path |-> DefPath, status |-> IGNORE] \in log
  /\ [phase |-> "scan", path |-> ScanPath, status |-> MAPPED] \in log
  /\ unmapped_data = {}
  /\ Entries(ScanPath) = raw_extrinsic_metadata

MaxOf(dates) == CHOOSE d \in dates : \A e \in dates : e <= d

\* C9: once the scan query has returned rows, the watermark is the largest
\* last_modified_date among them, from before the first row is handled to the
\* end of the run, also when a row ends the run with an exception; after a
\* first run over a table with rows it is the largest date in the table.
C9_WatermarkIsMaxOfFetched ==
  (pc \in {"scan", "idle"} /\ fetched # <<>>)
    => /\ clearcode_env =
            <<date_to_text(MaxOf({r.date : r \in Range(fetched)}))>>
       /\ before.env = <<>>
            => Watermark(clearcode_env) =
                 MaxOf({clearcode_cditem[p].last_modified_date :
                          p \in DOMAIN clearcode_cditem})

\* a run that an invalid identifier ended, after an earlier row was handled
C9_Witness ==
  /\ RunEnded
  /\ raised = "RevisionNotFound"
  /\ Len(fetched) >= 2
  /\ fetched[1].date > fetched[Len(fetched)].date
  /\ fetched[1].path # BadPath
  /\ Watermark(clearcode_env) = fetched[1].date

IsFossology(path) ==
  get_type_of_tool(path) = Return("fossology")

\* C10: a Fossology harvest is not passed to the Row Mapper, no entry in the
\* sink comes from its payload, and its path is not in unmapped_data.
C10_FossologyIsSkipped ==
  /\ \A a \in log : IsFossology(a.path) => a.status = "skipped"
  /\ \A e \in raw_extrinsic_metadata : e.metadata.shape # "fossology"
  /\ \A p \in unmapped_data : ~IsFossology(p)

C10_Witness ==
  /\ RunEnded
  /\ [phase |-> "scan", path |-> FossPath, status |-> "skipped"] \in log
  /\ \E c \in content : c.sha1 = hash_to_bytes("a1")

\* ------------------------------------------------- claims on get_type_of_tool
IdentifierErrors ==
  {"InvalidComponents", "RevisionNotFound", "NoJsonExtension", "ToolNotFound",
   "ToolNotSupported"}
KnownTools == {"scancode", "licensee", "clearlydefined", "fossology"}

\* the component of an identifier at a position counted from 0, <<>> when
\* the identifier has no such component
Component(id, i) == IF i + 1 \in DOMAIN id THEN <<id[i + 1]>> ELSE <<>>
LastComponent(id) == id[Len(id)]

Parsed == call.fn = "get_type_of_tool"

\* C12: get_type_of_tool returns, or raises one of the identifier errors; an
\* identifier of neither 6 nor 9 components, also one of fewer than 5, raises
\* an identifier error.
C12_ParseReturnsOrIdentifierError ==
  Parsed =>
    /\ returned.raised => returned.kind \in IdentifierErrors
    /\ Len(call.id) \notin {6, 9}
         => returned.raised /\ returned.kind \in IdentifierErrors

\* the error of the first rule that fails, None when no rule fails
FirstFailingRule(id) ==
  IF Component(id, 4) # <<"revision">> THEN "RevisionNotFound"
  ELSE IF ~EndsWithJson(LastComponent(id)) THEN "NoJsonExtension"
  ELSE IF Len(id) = 9 /\ Component(id, 6) # <<"tool">> THEN "ToolNotFound"
  ELSE IF Len(id) = 9 /\ id[8] \notin KnownTools THEN "ToolNotSupported"
  ELSE IF Len(id) \notin {6, 9} THEN "InvalidComponents"
  ELSE None

\* C13: get_type_of_tool raises the error of the first failing rule, in the
\* order RevisionNotFound, NoJsonExtension, ToolNotFound, ToolNotSupported,
\* InvalidComponents, and returns when no rule fails.
C13_ParseReportsFirstFailingRule ==
  Parsed =>
    IF FirstFailingRule(call.id) = None THEN ~returned.raised
    ELSE returned = Raise(FirstFailingRule(call.id))

WellFormed(id) ==
  /\ Component(id, 4) = <<"revision">>
  /\ EndsWithJson(LastComponent(id))

\* C14: for a well-formed identifier get_type_of_tool returns definition when
\* it has 6 components, and the tool named by component 7 when it has 9
\* components, component 6 is "tool" and component 7 is a known tool.
C14_ParseReturnsDefinitionOrTool ==
  (Parsed /\ WellFormed(call.id)) =>
    /\ Len(call.id) = 6 => returned = Return("definition")
    /\ (Len(call.id) = 9 /\ call.id[7] = "tool" /\ call.id[8] \in KnownTools)
         => returned = Return(call.id[8])

C14_Witness ==
  /\ Parsed
  /\ call.id = LicenseePath
  /\ returned = Return("licensee")

\* ---------------------------------------------------------- claims on map_row
MapRowCalled == call.fn = "map_row"

HarvestMapped ==
  /\ MapRowCalled
  /\ get_type_of_tool(call.id).value \in {"scancode", "licensee", "clearlydefined"}
  /\ IsGzip(call.metadata)
  /\ gzip_decompress(call.metadata) # <<>>

\* the file array the extractor of that call reads
CallFiles ==
  FilesOf(json_loads(gzip_decompress(call.metadata)),
          get_type_of_tool(call.id).value)

\* the hash a file lists resolved: the archive holds a content with that sha1
Resolves(file) ==
  /\ ~Falsy(file.hash)
  /\ \E c \in content : c.sha1 = hash_to_bytes(file.hash)
Lists(file) == ~Falsy(file.hash)

\* C17: a harvest of a tool other than fossology is MAPPED if and only if
\* every hash its payload lists resolved, and UNMAPPED otherwise; with an
\* empty file list it is MAPPED with no entries.
C17_HarvestMappedIffAllResolved ==
  HarvestMapped =>
    /\ ~returned.raised
    /\ returned.value.status \in {MAPPED, UNMAPPED}
    /\ returned.value.status = MAPPED
         <=> \A i \in DOMAIN CallFiles :
               Lists(CallFiles[i]) => Resolves(CallFiles[i])
    /\ CallFiles = <<>>
         => returned.value = [status |-> MAPPED, data |-> <<>>]

\* a harvest of two files: the hash of the first resolved, the second's did not
C17_Witness ==
  /\ HarvestMapped
  /\ Len(CallFiles) = 2
  /\ Resolves(CallFiles[1])
  /\ Lists(CallFiles[2]) /\ ~Resolves(CallFiles[2])
  /\ returned.value.status = UNMAPPED

\* C18: the entries of a harvest are one content entry for each listed hash
\* that resolved, in the order of the file array, whatever the outcome is.
C18_HarvestEntriesAreResolvedFilesInOrder ==
  HarvestMapped =>
    LET resolved == SelectSeq(CallFiles, Resolves)
        data == returned.value.data
    IN /\ Len(data) = Len(resolved)
       /\ \A i \in DOMAIN resolved :
            /\ data[i].type = "content"
            /\ data[i].metadata = resolved[i]
            /\ data[i].target =
                 <<"swh", 1, "cnt", Sha1GitOf(resolved[i].hash)>>

\* three files, the middle one unresolved: the entries are the first's and
\* the third's
C18_Witness ==
  /\ HarvestMapped
  /\ Len(CallFiles) = 3
  /\ Resolves(CallFiles[1])
  /\ Lists(CallFiles[2]) /\ ~Resolves(CallFiles[2])
  /\ Resolves(CallFiles[3])
  /\ returned.value.status = UNMAPPED
  /\ Len(returned.value.data) = 2
  /\ returned.value.data[1].metadata = CallFiles[1]
  /\ returned.value.data[2].metadata = CallFiles[3]

\* a call of map_row on a definition whose payload holds a definition document
DefinitionMapped ==
  /\ MapRowCalled
  /\ get_type_of_tool(call.id) = Return("definition")
  /\ IsGzip(call.metadata)
  /\ gzip_decompress(call.metadata) # <<>>
  /\ json_loads(gzip_decompress(call.metadata)).shape = "definition"
CallDoc == json_loads(gzip_decompress(call.metadata))

JustCrashed == pc = "idle" /\ raised = "crash"

\* C11: after a crash the bookkeeping of every record the run had handled is
\* in place (the watermark the scan wrote, the retry-set membership of the
\* rows found Unmapped or Mapped), and the run that follows the restart
\* handles the record that was in flight.
C11_CrashKeepsBookkeepingAndRedoesInFlight ==
  /\ JustCrashed =>
       /\ fetched # <<>> => Watermark(clearcode_env) = fetched[1].date
       /\ \A a \in log :
            /\ a.status = UNMAPPED => a.path \in unmapped_data
            /\ (a.phase = "retry" /\ a.status = MAPPED)
                 => a.path \notin unmapped_data
  /\ (RunEnded /\ raised = None /\ before.in_flight # NoPath)
       => \E a \in log : a.path = before.in_flight

EmptyPayload(path) == clearcode_cditem[path].content = EmptyContent
ValidPaths == {id \in MapperPaths : ~get_type_of_tool(id).raised}

\* nothing is staged yet: every state the archive takes is met here, so a
\* property of map_row alone, whose inputs are the archive, an identifier, a
\* payload and a date, is stated here
AtRest == pc = "idle" /\ clearcode_cditem = <<>>

\* map_row on an empty payload: UNMAPPED, no entry, no archive lookup
EmptyPayloadIsUnmapped ==
  AtRest =>
  \A id \in ValidPaths, d \in Dates :
    /\ map_row(content, revision, EmptyContent, id, d)
         = Return([status |-> UNMAPPED, data |-> <<>>])
    /\ map_row_lookups(EmptyContent, id) = <<>>

GitShaNotFound(path) ==
  LET text == gzip_decompress(clearcode_cditem[path].content)
  IN /\ text # <<>>
     /\ json_loads(text).shape = "definition"
     /\ is_sha1(json_loads(text).gitSha)
     /\ hash_to_bytes(json_loads(text).gitSha) \notin revision
     /\ get_type_of_tool(path) = Return("definition")

DefinitionRecord ==
  /\ call.fn \in {"map_row", "orchestrate_row"}
  /\ get_type_of_tool(call.id) = Return("definition")
  /\ IsGzip(call.metadata)
  /\ gzip_decompress(call.metadata) # <<>>

\* a field of `described` in the document of the call, None when the document
\* has no such field
Described(field) ==
  IF CallDoc.shape = "definition" THEN CallDoc[field] ELSE None

\* neither gitSha nor sourceLocation.revision gives a sha1
NoUsableHash ==
  /\ Falsy(Described("gitSha"))
  /\ Falsy(Described("revision")) \/ ~is_sha1(Described("revision"))
\* gitSha is there and is not a sha1
MalformedGitSha ==
  /\ ~Falsy(Described("gitSha"))
  /\ ~is_sha1(Described("gitSha"))

SwhidCalled == call.fn = "map_sha1_with_swhid"

\* the contents of the archive whose sha1 is the one of the call
Held == {c \in content : c.sha1 = hash_to_bytes(call.sha1)}

\* C22: for a sha1 whose content the archive holds map_sha1_with_swhid returns
\* a swhid, the cnt identifier of the sha1_git that the archive keeps for that
\* content and not of the sha1 given; for a sha1 the archive has no content
\* of it returns None.
C22_ResolveContentUsesTheArchivesHash ==
  (SwhidCalled /\ ~Falsy(call.sha1)) =>
    /\ ~returned.raised
    /\ Held # {}
         => /\ returned.value # NoSwhid
            /\ \A c \in Held :
                 returned.value = <<"swh", 1, "cnt", hash_to_hex(c.sha1_git)>>
            /\ returned.value # <<"swh", 1, "cnt", call.sha1>>
    /\ Held = {} => returned.value = NoSwhid

C22_Witness ==
  /\ SwhidCalled
  /\ call.sha1 = "a1"
  /\ Content("a1") \in content
  /\ Content("a2") \in content
  /\ returned = Return(<<"swh", 1, "cnt", "g1">>)

\* C28: called with an empty or absent sha1, map_sha1_with_swhid returns None
\* and issues no lookup, whatever the archive holds.
C28_ResolveContentOfNoHashAsksNothing ==
  (SwhidCalled /\ Falsy(call.sha1)) =>
    /\ returned = Return(NoSwhid)
    /\ queries = <<>>

C28_Witness ==
  /\ SwhidCalled
  /\ call.sha1 = NoHash
  /\ content # {}
  /\ returned = Return(NoSwhid)
  /\ queries = <<>>

\* the hash map_definition looks up: gitSha, sourceLocation.revision when
\* gitSha is absent
RevisionHash ==
  IF Falsy(Described("gitSha")) THEN Described("revision")
  ELSE Described("gitSha")

Readers == {"map_sha1_with_swhid", "sha1_git_in_revisions", "map_row"}

\* C29: a call of map_sha1_with_swhid, of sha1_git_in_revisions or of map_row
\* leaves the archive, the entries, the registrations, the watermark and
\* unmapped_data as they were; a step that changes the entries or the
\* bookkeeping is a call of orchestrate_row.
C29_ResolverAndMapperOnlyRead ==
  [][/\ call'.fn \in Readers
          => UNCHANGED <<archive, sink, clearcode_env, unmapped_data>>
     /\ (raw_extrinsic_metadata' # raw_extrinsic_metadata
         \/ unmapped_data' # unmapped_data
         \/ clearcode_env' # clearcode_env)
          => call'.fn = "orchestrate_row"]_vars

\* map_row has returned entries and the archive has none
C29_Witness ==
  /\ MapRowCalled
  /\ ~returned.raised
  /\ returned.value.data # <<>>
  /\ raw_extrinsic_metadata = {}
  /\ unmapped_data = {}

\* ------------------------------------------ claims on the orchestrator, III
\* the rows of the scan query that the loop has handled, and their paths
Done == Len(fetched) - Len(rows)
ScannedPaths == {a.path : a \in {b \in log : b.phase = "scan"}}

\* the staging records whose last_modified_date is before d
Before(d) ==
  {p \in DOMAIN clearcode_cditem :
     clearcode_cditem[p].last_modified_date < d}

C24_EmptyScanWritesNothing ==
  [][(/\ pc = "read_from_clearcode_and_write_in_swh"
      /\ (IF date # NoDate THEN Before(date)
          ELSE DOMAIN clearcode_cditem) = {})
       => /\ pc' = "idle"
          /\ raised' = None
          /\ fetched' = <<>>
          /\ UNCHANGED <<clearcode_env, unmapped_data, sink>>
          /\ clearcode_env' = before.env]_vars

\* a run over a table with a record, none older than the watermark, and with
\* a path to retry, has ended at the scan query
C24_Witness ==
  /\ RunEnded
  /\ raised = None
  /\ fetched = <<>>
  /\ clearcode_cditem # <<>>
  /\ clearcode_env # <<>>
  /\ unmapped_data # {}
  /\ \E a \in log : a.phase = "retry"

\* orchestrate_row on a record whose identifier get_type_of_tool rejects: the
\* exception comes out of it, and both tables are as they were
InvalidIdentifierComesOut ==
  \A id \in InvalidPaths, d \in Dates :
  \A metadata \in PayloadsFor(id) :
    LET r == orchestrate_row(content, revision, unmapped_data,
                             raw_extrinsic_metadata, Row(id, metadata, d))
    IN /\ r.raised = get_type_of_tool(id).kind
       /\ r.status \notin Outcomes
       /\ r.unmapped_data = unmapped_data
       /\ r.raw_extrinsic_metadata = raw_extrinsic_metadata

\* a step of a loop that handles a record with an invalid identifier
HandlesInvalid ==
  /\ attempt' # attempt
  /\ attempt'.phase \in {"retry", "scan"}
  /\ get_type_of_tool(attempt'.path).raised

\* C25: the exception that an invalid identifier raises comes out of
\* orchestrate_row and ends the run at that record, in the retry loop and in
\* the scan loop: the run has no outcome for the record, has not inserted its
\* path into unmapped_data and has written no entry.
C25_InvalidIdentifierEndsTheRun ==
  /\ [](AtRest => InvalidIdentifierComesOut)
  /\ [][HandlesInvalid
          => /\ pc' = "idle"
             /\ raised' = get_type_of_tool(attempt'.path).kind
             /\ attempt'.status \notin Outcomes
             /\ UNCHANGED <<unmapped_data, raw_extrinsic_metadata>>]_vars

\* the scan loop met the invalid identifier first: the run has ended there,
\* the row after it was not handled
C25_Witness ==
  /\ RunEnded
  /\ raised = "RevisionNotFound"
  /\ attempt = Attempt("scan", BadPath, "invalid")
  /\ Len(fetched) = 2
  /\ fetched[1].path = BadPath
  /\ ScannedPaths = {BadPath}
  /\ BadPath \notin unmapped_data
  /\ content # {}

RetriedPaths == {a.path : a \in {b \in log : b.phase = "retry"}}

\* C26: a run registers the authority and the fetcher, then retries the paths
\* it found in unmapped_data, then reads the watermark, then scans.  No entry
\* is in the archive without the two registrations; the retry loop handles
\* paths that were in unmapped_data when the run started and has handled them
\* all when the watermark is read; nothing is scanned and no date is written
\* before that; a path that the scan loop inserts is not retried by the run
\* that inserted it.
C26_RunRegistersRetriesReadsThenScans ==
  /\ (raw_extrinsic_metadata # {} \/ pc # "idle")
       => /\ AUTHORITY \in metadata_authority
          /\ FETCHER \in metadata_fetcher
  /\ RetriedPaths \subseteq before.unmapped
  /\ pc \in {"map_previously_unmapped_data", "retry"}
       => /\ ScannedPaths = {}
          /\ fetched = <<>>
          /\ date = NoDate
          /\ clearcode_env = before.env
  /\ pc \in {"read_from_clearcode_and_write_in_swh", "scan"}
       => /\ RetriedPaths = before.unmapped
          /\ date = Watermark(before.env)
  /\ \A a \in log :
       (a.phase = "scan" /\ a.path \notin before.unmapped)
         => a.path \notin RetriedPaths

\* a run has retried the path it found in unmapped_data, and its scan loop
\* has inserted another path, which it has not retried
C26_Witness ==
  /\ pc = "scan"
  /\ before.unmapped = {ScanPath}
  /\ Attempt("retry", ScanPath, UNMAPPED) \in log
  /\ Attempt("scan", DefPath, UNMAPPED) \in log
  /\ unmapped_data = {ScanPath, DefPath}
  /\ RetriedPaths = {ScanPath}
  /\ date # NoDate

\* a step of a loop that handles a record whose path is in unmapped_data and
\* that map_row finds UNMAPPED: orchestrate_row inserts the path again
InsertsAMember ==
  /\ attempt' # attempt
  /\ attempt'.phase \in {"retry", "scan"}
  /\ attempt'.path \in unmapped_data
  /\ ~Skipped(get_type_of_tool(attempt'.path).value)
  /\ LET r == map_row(content, revision, RowOf(attempt'.path).metadata,
                      attempt'.path, RowOf(attempt'.path).date)
     IN ~r.raised /\ r.value.status = UNMAPPED

\* C30: the insert of a path that is in unmapped_data leaves unmapped_data as
\* it was and raises nothing, and the run goes on; unmapped_data holds a path
\* at most once, being the set of the values of a column with a unique index.
C30_InsertOfAMemberChangesNothing ==
  [][InsertsAMember
       => /\ attempt'.status = UNMAPPED
          /\ unmapped_data' = unmapped_data
          /\ pc' = pc
          /\ raised' = raised]_vars

\* the scan loop has handled a record that the retry loop of the same run had
\* handled, UNMAPPED both times: the path is in unmapped_data
C30_Witness ==
  /\ pc = "scan"
  /\ Attempt("retry", ScanPath, UNMAPPED) \in log
  /\ Attempt("scan", ScanPath, UNMAPPED) \in log
  /\ unmapped_data = {ScanPath}
  /\ before.unmapped = {ScanPath}

\* ------------------------------------------------------ claims on entries
\* described.sourceLocation.url of the payload of that call, None when the
\* payload has no such field
CallUrl ==
  IF gzip_decompress(call.metadata) = <<>> THEN None
  ELSE IF CallDoc.shape = "definition" THEN CallDoc.url ELSE None

WithoutHashless ==
  gzip_compress(<<[shape |-> CallDoc.shape,
                   files |-> SelectSeq(CallFiles, Lists)]>>)

\* C34: a file of a harvest that carries no hash (the field is missing or
\* empty) yields no entry and does not make the outcome UNMAPPED: outcome and
\* entries are those of the same harvest without such files.
C34_FileWithoutHashCountsForNothing ==
  HarvestMapped =>
    /\ \A i \in DOMAIN returned.value.data :
         Lists(returned.value.data[i].metadata)
    /\ returned = map_row(content, revision, WithoutHashless, call.id,
                          call.date)

\* the first file has an empty hash, the second none, the third resolves: the
\* harvest is MAPPED with the entry of the third
C34_Witness ==
  /\ HarvestMapped
  /\ Len(CallFiles) = 3
  /\ CallFiles[1].hash = NoHash
  /\ CallFiles[2].hash = None
  /\ Resolves(CallFiles[3])
  /\ returned.value.status = MAPPED
  /\ Len(returned.value.data) = 1
  /\ returned.value.data[1].metadata = CallFiles[3]

\* ------------------------------------------- claims on the orchestrator, IV
\* the last_modified_date of the rows of the staging table
RecordDates ==
  {clearcode_cditem[p].last_modified_date : p \in DOMAIN clearcode_cditem}

\* C36: after any sequence of runs clearcode_env holds at most one row of key
\* 'date', and the date of that row is the last_modified_date of a row of the
\* staging table.
C36_OneWatermarkOfSomeRecord ==
  RunEnded =>
    /\ Len(clearcode_env) <= 1
    /\ Len(clearcode_env) = 1 => Watermark(clearcode_env) \in RecordDates

\* C33: rows are never deleted from the staging table, so every path of
\* unmapped_data, and every path the retry loop has read from it, is the path
\* of a row of the staging table: the retry loop's SELECT by path returns a
\* row and `cursor.fetchall()[0]` does not raise.
C33_PendingPathsAreStagingRecords ==
  /\ unmapped_data \subseteq DOMAIN clearcode_cditem
  /\ retry_rows \subseteq DOMAIN clearcode_cditem
  /\ \A a \in log : a.phase = "retry" => a.status \in Outcomes

\* a later run retries a path that an earlier run put in unmapped_data, with
\* another left to retry
C33_Witness ==
  /\ pc = "retry"
  /\ retry_rows # {}
  /\ attempt.phase = "retry"
  /\ attempt.status = UNMAPPED
  /\ attempt.path \in before.unmapped
  /\ attempt.path \in DOMAIN clearcode_cditem
  /\ Cardinality(before.unmapped) = 2

\* ------------------------------------------------ one record, many attempts
\* orchestrate_row called again and again for one staging record, as the scan
\* of one run and the retry loops of the runs after it call it, while the
\* archive receives objects in between.
MaxAttempts == 2

\* the rows the loops hand to orchestrate_row: a well-formed identifier of a
\* tool other than fossology, any payload
RecordPaths ==
  {id \in MapperPaths :
     /\ ~get_type_of_tool(id).raised
     /\ ~Skipped(get_type_of_tool(id).value)}

\* orchestrate_row(storage, cursor, connection, row), for the row of the
\* calls before it
ProcessRow ==
  /\ Len(added) < MaxAttempts
  /\ \E id \in IF call = NoCall THEN RecordPaths ELSE {call.id} :
     \E metadata \in IF call = NoCall THEN PayloadsFor(id)
                      ELSE {call.metadata},
        d \in IF call = NoCall THEN Dates ELSE {call.date} :
       LET row == Row(id, metadata, d)
           r == orchestrate_row(content, revision, unmapped_data,
                                raw_extrinsic_metadata, row)
       IN /\ call' = [fn |-> "orchestrate_row", id |-> id,
                      metadata |-> metadata, date |-> d, sha1 |-> None]
          /\ returned' = IF r.raised # None THEN Raise(r.raised)
                         ELSE Return(r.ret)
          /\ queries' = map_row_lookups(metadata, id)
          /\ added' = Append(added,
                             orchestrate_row_adds(content, revision,
                                                  raw_extrinsic_metadata, row))
          /\ unmapped_data' = r.unmapped_data
          /\ raw_extrinsic_metadata' = r.raw_extrinsic_metadata
  /\ UNCHANGED <<clearcode_cditem, clearcode_env, metadata_authority,
                 metadata_fetcher, pc, locals, raised, history, changed,
                 archive>>

AttemptsNext ==
  \/ ProcessRow
  \/ AddContent
  \/ AddRevision

AttemptsSpec == MapperInit /\ [][AttemptsNext]_vars

\* --------------------------------------------------- claims on the sink
\* the files of the record whose hash the archive resolves, in their order;
\* a definition that is UNMAPPED has none: its revision is not in the archive
ResolvedFiles ==
  IF /\ get_type_of_tool(call.id).value # "definition"
     /\ IsGzip(call.metadata)
     /\ gzip_decompress(call.metadata) # <<>>
    THEN SelectSeq(CallFiles, Resolves)
    ELSE <<>>

\* the entries the last call of orchestrate_row handed to the archive
LastAdded == added[Len(added)]

\* C35: every attempt that finds its record UNMAPPED hands to the sink one
\* entry for each hash that resolves at that attempt, whether or not an
\* earlier attempt has written that entry; no step takes an entry out of the
\* sink.
C35_EveryUnmappedAttemptAppendsItsResolvedEntries ==
  [][/\ raw_extrinsic_metadata \subseteq raw_extrinsic_metadata'
     /\ (Len(added') = Len(added) + 1 /\ returned' = Return("False")) =>
          /\ Len(LastAdded') = Len(ResolvedFiles')
          /\ \A i \in DOMAIN LastAdded' :
               /\ LastAdded'[i].metadata = ResolvedFiles'[i]
               /\ LastAdded'[i].target =
                    <<"swh", 1, "cnt", Sha1GitOf(ResolvedFiles'[i].hash)>>
          /\ raw_extrinsic_metadata' =
               raw_extrinsic_metadata \cup Range(LastAdded')
          /\ call'.id \in unmapped_data']_vars

\* the second attempt of a harvest of which one hash resolves and another
\* does not: it hands over the entry that the first attempt wrote
C35_Witness ==
  /\ Len(added) = 2
  /\ returned = Return("False")
  /\ Len(ResolvedFiles) = 1
  /\ added[1] = added[2]
  /\ Len(added[2]) = 1
  /\ Range(added[2]) \subseteq raw_extrinsic_metadata
  /\ call.id \in unmapped_data

\* ------------------------------------------- a table that receives no row
\* The orchestrator run again and again over a staging table that is filled
\* once and then left alone, with an archive that does not change: it holds
\* no content, or the content of every sha1.
\* the staging tables of at most MaxRows rows
QuietTables ==
  LET contents == UNION {ContentsFor(path) : path \in Paths}
  IN UNION {{t \in [ps -> [content : contents, last_modified_date : Dates]] :
               \A p \in ps : t[p].content \in ContentsFor(p)} :
              ps \in {q \in SUBSET Paths : Cardinality(q) <= MaxRows}}

QuietInit ==
  /\ clearcode_cditem \in QuietTables
  /\ unmapped_data = {}
  /\ clearcode_env = <<>>
  /\ content \in {{}, {Content(sha1) : sha1 \in Sha1s}}
  /\ revision = {}
  /\ raw_extrinsic_metadata = {}
  /\ metadata_authority = {}
  /\ metadata_fetcher = {}
  /\ pc = "idle"
  /\ retry_rows = {}
  /\ date = NoDate
  /\ rows = <<>>
  /\ raised = None
  /\ attempt = NoAttempt
  /\ log = {}
  /\ fetched = <<>>
  /\ before = NotStarted
  /\ was_mapped = {}
  /\ changed = TRUE
  /\ call = NoCall
  /\ returned = Return(None)
  /\ queries = <<>>
  /\ added = <<>>

\* the steps of orchestrator()
QuietNext ==
  \/ init_storage
  \/ SelectUnmapped
  \/ RetryRow
  \/ get_last_run_date
  \/ ScanQuery
  \/ ScanRow
  \/ ScanDone

\* a run that is started goes on to its end, and the orchestrator is started
\* again after every run
QuietSpec == QuietInit /\ [][QuietNext]_vars /\ WF_vars(QuietNext)

\* the scan query of a run that had read a watermark has returned rows
ScansBelow ==
  /\ pc = "read_from_clearcode_and_write_in_swh"
  /\ pc' = "scan"
  /\ date # NoDate

====
